---- MODULE Spec2Model ----
(***************************************************************************)
(* A model of download_dataset.py: one run of main(), from argument        *)
(* parsing to process exit.  The file system, the process environment, the *)
(* console and the three collaborators (huggingface_hub.login,             *)
(* datasets.load_dataset, Dataset.save_to_disk) are the state; each        *)
(* statement group of the script is one action.                            *)
(***************************************************************************)
EXTENDS Integers, Sequences, FiniteSets, TLC

\* ------------------------------------------------------------------ bounds
\* deepest --output-dir given on the command line: d1/d2/.../dMaxDepth
MaxDepth == 2
\* largest --num-proc value given on the command line
MaxNumProc == 2
\* largest number of samples a fetched split holds
MaxSamples == 2

\* ------------------------------------------------------- program constants
DOWNLOADER_TIMEOUT == 300
LOAD_NUM_PROC == 1
DEFAULT_NUM_PROC == 4
RULE_WIDTH == 60
USAGE_EXIT == 2

\* ------------------------------------------------------------ Python values
\* An optional value: None is the empty tuple, a present value v is <<v>>.
None == <<>>
Some(v) == <<v>>
Get(o) == o[1]

\* Mutant of TruthyStr: the test `token is not None` in place of `if token`.
TruthyStr_NotNone(o) == o # None

\* bool(s) of an optional string: None and "" are falsy.
TruthyStr(o) == o # None /\ Get(o) # ""

\* A path is the tuple of its components; <<>> is "" or ".", the working
\* directory.  bool(p) of an optional path string: None and "" are falsy.
TruthyPath(o) == o # None /\ Get(o) # <<>>

\* Path.parent: the parent of "." is "." itself.
Parent(p) == IF p = <<>> THEN <<>> ELSE SubSeq(p, 1, Len(p) - 1)

\* Path.absolute(): the working directory joined with the relative path.
Absolute(p) == <<"cwd">> \o p

\* output_path / "AudioMNIST"
DataPath(p) == p \o <<"AudioMNIST">>

\* ----------------------------------------------------------- the universe
Dname(i) == IF i = 1 THEN "d1" ELSE IF i = 2 THEN "d2" ELSE IF i = 3 THEN "d3" ELSE "d4"
Nested(k) == [i \in 1..k |-> Dname(i)]

DefaultOutputDir == <<"data">>
CachePath == <<"cache">>

\* --output-dir: omitted, "" (the working directory), d1, d1/d2, ...
OutputDirArgs == {None} \cup {Some(Nested(k)) : k \in 0..MaxDepth}
\* --cache-dir: omitted, "", cache
CacheDirArgs == {None, Some(<<>>), Some(CachePath)}
\* --split: omitted, the three choices, and a value outside the choices
SplitChoices == {"train", "test", "all"}
SplitArgs == {None} \cup {Some(s) : s \in SplitChoices \cup {"validation"}}
NumProcArgs == {None} \cup {Some(n) : n \in 1..MaxNumProc}
Argvs == [output_dir : OutputDirArgs, split : SplitArgs,
          cache_dir : CacheDirArgs, num_proc : NumProcArgs]

\* HUGGINGFACE_TOKEN: unset, set to "", set to a token
Tokens == {None, Some(""), Some("hf_a"), Some("hf_b")}

OutPaths == {DefaultOutputDir} \cup {Nested(k) : k \in 0..MaxDepth}
AllPaths == OutPaths \cup {DataPath(p) : p \in OutPaths} \cup {CachePath}

\* What a path is on disk.  "partial" and "dataset" are directories holding
\* a partly or a fully written dataset.
Kinds == {"absent", "file", "dir", "partial", "dataset"}
IsDir(k) == k \in {"dir", "partial", "dataset"}
Exists(k) == k # "absent"

IsPrefix(p, q) == Len(p) <= Len(q) /\ SubSeq(q, 1, Len(p)) = p


\* ------------------------------------------------------------------- state
VARIABLES
    pc,                 \* the statement group the run is about to execute
    argv,               \* the command line, one optional value per flag
    env,                \* os.environ["HUGGINGFACE_TOKEN"], optional
    fs,                 \* the file system: path -> kind
    fs0,                \* the file system when the process started
    cfg,                \* the arguments download_AudioMNIST was called with
    out,                \* stdout, the printed lines in order
    stderr,             \* stderr: argparse's usage error, the traceback
    calls,              \* the collaborator calls made, in order
    downloader_timeout, \* datasets.config.DOWNLOADER_TIMEOUT (0: library default)
    dataset,            \* the value load_dataset returned
    exc,                \* the exception in flight, optional
    exit_status         \* the process exit status, optional

vars == <<pc, argv, env, fs, fs0, cfg, out, stderr, calls,
          downloader_timeout, dataset, exc, exit_status>>

\* A printed line: its fixed text (kind) and the values formatted into it.
Line(kind, name, n, path) == [kind |-> kind, name |-> name, n |-> n, path |-> path]
Text(kind) == Line(kind, "", -1, <<>>)

NoCfg == [output_dir |-> <<>>, split |-> "", cache_dir |-> None, num_proc |-> 0]
NoDataset == [isdict |-> FALSE, items |-> <<>>]

\* ----------------------------------------------------------- file system
\* The disk before the run along one path: its first k components exist,
\* the k-th as `last` (a directory or a plain file), the ones above it as
\* directories; everything else is absent.
ChainKind(chain, k, last, p) ==
    IF p = <<>> THEN "dir"
    ELSE IF IsPrefix(p, chain) /\ Len(p) < k THEN "dir"
    ELSE IF IsPrefix(p, chain) /\ Len(p) = k THEN last
    ELSE "absent"

\* os.mkdir(p): the outcomes of the system call on file system f.
OsMkdir(f, p) ==
    IF Exists(f[p]) THEN {[fs |-> f, err |-> "FileExistsError"]}
    ELSE IF ~Exists(f[Parent(p)]) THEN {[fs |-> f, err |-> "FileNotFoundError"]}
    ELSE IF ~IsDir(f[Parent(p)]) THEN {[fs |-> f, err |-> "NotADirectoryError"]}
    ELSE {[fs |-> [f EXCEPT ![p] = "dir"], err |-> ""],
          [fs |-> f, err |-> "PermissionError"]}

\* Path.mkdir(parents, exist_ok): the set of outcomes [fs, err], err = ""
\* when the call returns.
RECURSIVE Mkdir(_, _, _, _)
Mkdir(f, p, parents, exist_ok) ==
    UNION {
        IF o.err = "" THEN {o}
        ELSE IF o.err = "FileNotFoundError" THEN
            IF ~parents \/ Parent(p) = p THEN {o}
            ELSE UNION {
                IF q.err # "" THEN {q} ELSE Mkdir(q.fs, p, FALSE, exist_ok)
                : q \in Mkdir(o.fs, Parent(p), TRUE, TRUE) }
        ELSE IF ~exist_ok \/ ~IsDir(o.fs[p]) THEN {o}
        ELSE {[fs |-> o.fs, err |-> ""]}
        : o \in OsMkdir(f, p) }

\* Mutant of MakeDirs: mkdir(parents=True) without exist_ok.
MakeDirs_NotExistOk(f, p) == Mkdir(f, p, TRUE, FALSE)

\* output_path.mkdir(parents=True, exist_ok=True), and the same for cache_path
MakeDirs(f, p) == Mkdir(f, p, TRUE, TRUE)

\* ---------------------------------------------------------- collaborators
\* huggingface_hub.login(token=...): returns, or raises.
LoginOutcomes == {"", "LoginError"}

\* load_dataset(repo, [split=...], cache_dir=..., num_proc=...): a mapping
\* of every split when no split is named, one collection otherwise; or raises.
LoadDataset(split) ==
    {[err |-> "FetchError", value |-> NoDataset]} \cup
    IF split = None
    THEN {[err |-> "", value |-> [isdict |-> TRUE,
              items |-> <<[name |-> "train", n |-> a], [name |-> "test", n |-> b]>>]]
          : a \in 0..MaxSamples, b \in 0..MaxSamples}
    ELSE {[err |-> "", value |-> [isdict |-> FALSE,
              items |-> <<[name |-> Get(split), n |-> a]>>]]
          : a \in 0..MaxSamples}

\* len(dataset) of a single collection
LenOf(d) == d.items[1].n

\* dataset.save_to_disk(path): writes the dataset directory; when it raises
\* it may leave a partly written directory behind.
SaveToDisk(f, p) ==
    {[fs |-> f, err |-> "SaveError"]} \cup
    IF IsDir(f[Parent(p)]) /\ (IsDir(f[p]) \/ ~Exists(f[p]))
    THEN {[fs |-> [f EXCEPT ![p] = "dataset"], err |-> ""],
          [fs |-> [f EXCEPT ![p] = "partial"], err |-> "SaveError"]}
    ELSE {}

\* --------------------------------------------------------------- printing
\* Mutant of EchoLines: the echo block also prints num_proc.
EchoLines_WithNumProc(c) ==
    <<Line("rule", "", RULE_WIDTH, <<>>), Text("title"), Line("rule", "", RULE_WIDTH, <<>>),
      Line("output_dir", "", -1, Absolute(c.output_dir)),
      Line("split", c.split, -1, <<>>),
      Line("num_proc", "", c.num_proc, <<>>)>>

\* lines 32-36
EchoLines(c) ==
    <<Line("rule", "", RULE_WIDTH, <<>>), Text("title"), Line("rule", "", RULE_WIDTH, <<>>),
      Line("output_dir", "", -1, Absolute(c.output_dir)),
      Line("split", c.split, -1, <<>>)>>

\* line 42
CacheLine(p) == <<Line("cache_dir", "", -1, Absolute(p))>>

\* lines 51-53
DownloadingLines == <<Text("downloading"), Text("note_large"), Text("note_cached")>>

\* Mutant of ReportLines: no isinstance test, len(dataset) printed as the
\* total (the number of splits, for a mapping).
ReportLines_AlwaysTotal(d) ==
    <<Text("downloaded"),
      Line("total", "", IF d.isdict THEN Len(d.items) ELSE LenOf(d), <<>>)>>

\* lines 72-77
ReportLines(d) ==
    <<Text("downloaded")>> \o
    IF d.isdict
    THEN [i \in 1..Len(d.items) |-> Line("split_count", d.items[i].name, d.items[i].n, <<>>)]
    ELSE <<Line("total", "", LenOf(d), <<>>)>>

\* line 80
SavingLine(p) == <<Line("saving", "", -1, p)>>

\* lines 83-89
CompleteLines(p) ==
    <<Line("rule", "", RULE_WIDTH, <<>>), Text("complete"), Line("rule", "", RULE_WIDTH, <<>>),
      Line("saved_to", "", -1, DataPath(p)), Text("to_load"), Text("import_hint"),
      Line("load_hint", "", -1, DataPath(p))>>

\* lines 93-98: the remediation guide
GuideLines ==
    <<Text("guide_header"), Text("guide_1_account"), Text("guide_2_token"),
      Text("guide_3_env"), Text("guide_3_export"), Text("guide_4_cli")>>

\* lines 92-98
ErrorLines(e) == <<Line("error", e.type, -1, <<>>)>> \o GuideLines

\* ------------------------------------------------------------------- main
\* Mutant of ParseArgs: --split declared without choices.
ParseArgs_NoChoices(a) ==
    [err |-> FALSE,
     ns |-> [output_dir |-> IF a.output_dir = None THEN DefaultOutputDir
                            ELSE Get(a.output_dir),
             split |-> IF a.split = None THEN "all" ELSE Get(a.split),
             cache_dir |-> a.cache_dir,
             num_proc |-> IF a.num_proc = None THEN DEFAULT_NUM_PROC
                          ELSE Get(a.num_proc)]]

\* parser.parse_args(): a --split outside the choices is a usage error;
\* an omitted flag takes its default.
ParseArgs(a) ==
    IF a.split # None /\ Get(a.split) \notin SplitChoices
    THEN [err |-> TRUE, ns |-> NoCfg]
    ELSE [err |-> FALSE,
          ns |-> [output_dir |-> IF a.output_dir = None THEN DefaultOutputDir
                                 ELSE Get(a.output_dir),
                  split |-> IF a.split = None THEN "all" ELSE Get(a.split),
                  cache_dir |-> a.cache_dir,
                  num_proc |-> IF a.num_proc = None THEN DEFAULT_NUM_PROC
                               ELSE Get(a.num_proc)]]

\* The statement groups inside the try block of download_AudioMNIST.
TryStages == {"login", "set_timeout", "fetch", "report", "save", "complete"}

\* Mutants of HandlerFor: the try block ends before the save; the try
\* block wraps the whole function body; a failed fetch is tried again.
HandlerFor_SaveOutside(stage) ==
    IF stage \in TryStages \ {"save", "complete"} THEN "except" ELSE "propagate"
HandlerFor_WholeBody(stage) == "except"
HandlerFor_RetryFetch(stage) ==
    IF stage = "fetch" THEN "fetch"
    ELSE IF stage \in TryStages THEN "except" ELSE "propagate"

\* Where control goes when the statement group `stage` raises.
HandlerFor(stage) == IF stage \in TryStages THEN "except" ELSE "propagate"

\* os.getenv("HUGGINGFACE_TOKEN")
GetEnv == env

\* the split keyword passed to load_dataset
SplitKeyword(split) == IF split = "all" THEN None ELSE Some(split)

\* Mutant of LoadCall: --num-proc forwarded to load_dataset.
LoadCall_ForwardNumProc(c) ==
    [fn |-> "load_dataset", repo |-> "gilkeyio/AudioMNIST",
     split |-> IF c.split = "all" THEN None ELSE Some(c.split),
     cache_dir |-> c.cache_dir, num_proc |-> c.num_proc]

\* Mutant of SavePath: the dataset saved into output_dir itself.
SavePath_OutputDir(p) == p

LoginCall(t) == [fn |-> "login", token |-> t]
LoadCall(c) ==
    [fn |-> "load_dataset", repo |-> "gilkeyio/AudioMNIST",
     split |-> SplitKeyword(c.split), cache_dir |-> c.cache_dir,
     num_proc |-> LOAD_NUM_PROC]
\* str(output_path / "AudioMNIST"), the argument of save_to_disk
SavePath(p) == DataPath(p)
SaveCall(p) == [fn |-> "save_to_disk", path |-> SavePath(p)]

Init ==
    /\ pc = "main"
    /\ argv \in Argvs
    /\ env \in Tokens
    /\ \E k \in 0..(MaxDepth + 1), last \in {"dir", "file"},
          ck \in 0..1, clast \in {"dir", "file"} :
         LET chain == DataPath(ParseArgs(argv).ns.output_dir) IN
         fs = [p \in AllPaths |->
                 IF IsPrefix(p, CachePath) /\ p # <<>>
                 THEN ChainKind(CachePath, ck, clast, p)
                 ELSE ChainKind(chain, k, last, p)]
    /\ fs0 = fs
    /\ cfg = NoCfg
    /\ out = <<>>
    /\ stderr = <<>>
    /\ calls = <<>>
    /\ downloader_timeout = 0
    /\ dataset = NoDataset
    /\ exc = None
    /\ exit_status = None

\* lines 102-139: main() parses the command line and calls
\* download_AudioMNIST, or ends the process with a usage error.
Main ==
    /\ pc = "main"
    /\ LET r == ParseArgs(argv) IN
       IF r.err
       THEN /\ stderr' = Append(stderr, "usage")
            /\ exit_status' = Some(USAGE_EXIT)
            /\ pc' = "exited"
            /\ cfg' = cfg
       ELSE /\ cfg' = r.ns
            /\ pc' = "mkdir_output"
            /\ UNCHANGED <<stderr, exit_status>>
    /\ UNCHANGED <<argv, env, fs, fs0, out, calls, downloader_timeout, dataset, exc>>

\* lines 29-30
MkdirOutput ==
    /\ pc = "mkdir_output"
    /\ \E o \in MakeDirs(fs, cfg.output_dir) :
         /\ fs' = o.fs
         /\ IF o.err = ""
            THEN pc' = "echo" /\ exc' = exc
            ELSE pc' = HandlerFor(pc) /\ exc' = Some([type |-> o.err, at |-> pc])
    /\ UNCHANGED <<argv, env, fs0, cfg, out, stderr, calls, downloader_timeout,
                   dataset, exit_status>>

\* lines 32-36
Echo ==
    /\ pc = "echo"
    /\ out' = out \o EchoLines(cfg)
    /\ pc' = "mkdir_cache"
    /\ UNCHANGED <<argv, env, fs, fs0, cfg, stderr, calls, downloader_timeout,
                   dataset, exc, exit_status>>

\* lines 39-42
MkdirCache ==
    /\ pc = "mkdir_cache"
    /\ IF TruthyPath(cfg.cache_dir)
       THEN \E o \in MakeDirs(fs, Get(cfg.cache_dir)) :
              /\ fs' = o.fs
              /\ IF o.err = ""
                 THEN /\ out' = out \o CacheLine(Get(cfg.cache_dir))
                      /\ pc' = "login"
                      /\ exc' = exc
                 ELSE /\ out' = out
                      /\ pc' = HandlerFor(pc)
                      /\ exc' = Some([type |-> o.err, at |-> pc])
       ELSE /\ pc' = "login"
            /\ UNCHANGED <<fs, out, exc>>
    /\ UNCHANGED <<argv, env, fs0, cfg, stderr, calls, downloader_timeout,
                   dataset, exit_status>>

\* lines 47-49
Login ==
    /\ pc = "login"
    /\ LET token == GetEnv IN
       IF TruthyStr(token)
       THEN /\ calls' = Append(calls, LoginCall(Get(token)))
            /\ \E e \in LoginOutcomes :
                 IF e = ""
                 THEN pc' = "set_timeout" /\ exc' = exc
                 ELSE pc' = HandlerFor(pc) /\ exc' = Some([type |-> e, at |-> pc])
       ELSE /\ pc' = "set_timeout"
            /\ UNCHANGED <<calls, exc>>
    /\ UNCHANGED <<argv, env, fs, fs0, cfg, out, stderr, downloader_timeout,
                   dataset, exit_status>>

\* lines 51-54
SetTimeout ==
    /\ pc = "set_timeout"
    /\ out' = out \o DownloadingLines
    /\ downloader_timeout' = DOWNLOADER_TIMEOUT
    /\ pc' = "fetch"
    /\ UNCHANGED <<argv, env, fs, fs0, cfg, stderr, calls, dataset, exc, exit_status>>

\* lines 57-69
Fetch ==
    /\ pc = "fetch"
    /\ calls' = Append(calls, LoadCall(cfg))
    /\ \E r \in LoadDataset(LoadCall(cfg).split) :
         IF r.err = ""
         THEN /\ dataset' = r.value
              /\ pc' = "report"
              /\ exc' = exc
         ELSE /\ dataset' = dataset
              /\ pc' = HandlerFor(pc)
              /\ exc' = Some([type |-> r.err, at |-> pc])
    /\ UNCHANGED <<argv, env, fs, fs0, cfg, out, stderr, downloader_timeout, exit_status>>

\* lines 72-77
Report ==
    /\ pc = "report"
    /\ out' = out \o ReportLines(dataset)
    /\ pc' = "save"
    /\ UNCHANGED <<argv, env, fs, fs0, cfg, stderr, calls, downloader_timeout,
                   dataset, exc, exit_status>>

\* lines 80-81
Save ==
    /\ pc = "save"
    /\ out' = out \o SavingLine(cfg.output_dir)
    /\ calls' = Append(calls, SaveCall(cfg.output_dir))
    /\ \E o \in SaveToDisk(fs, SavePath(cfg.output_dir)) :
         /\ fs' = o.fs
         /\ IF o.err = ""
            THEN pc' = "complete" /\ exc' = exc
            ELSE pc' = HandlerFor(pc) /\ exc' = Some([type |-> o.err, at |-> pc])
    /\ UNCHANGED <<argv, env, fs0, cfg, stderr, downloader_timeout, dataset, exit_status>>

\* lines 83-89
Complete ==
    /\ pc = "complete"
    /\ out' = out \o CompleteLines(cfg.output_dir)
    /\ pc' = "return"
    /\ UNCHANGED <<argv, env, fs, fs0, cfg, stderr, calls, downloader_timeout,
                   dataset, exc, exit_status>>

\* lines 91-99: print the error and the guide, re-raise
Except ==
    /\ pc = "except"
    /\ out' = out \o ErrorLines(Get(exc))
    /\ pc' = "propagate"
    /\ UNCHANGED <<argv, env, fs, fs0, cfg, stderr, calls, downloader_timeout,
                   dataset, exc, exit_status>>

\* lines 142-143: main() returned, the process ends with status 0
ExitOk ==
    /\ pc = "return"
    /\ exit_status' = Some(0)
    /\ pc' = "exited"
    /\ UNCHANGED <<argv, env, fs, fs0, cfg, out, stderr, calls, downloader_timeout,
                   dataset, exc>>

\* lines 142-143: an exception left main(); the interpreter prints the
\* traceback and the process ends with status 1
ExitRaised ==
    /\ pc = "propagate"
    /\ stderr' = Append(stderr, "traceback")
    /\ exit_status' = Some(1)
    /\ pc' = "exited"
    /\ UNCHANGED <<argv, env, fs, fs0, cfg, out, calls, downloader_timeout,
                   dataset, exc>>

Next ==
    \/ Main
    \/ MkdirOutput
    \/ Echo
    \/ MkdirCache
    \/ Login
    \/ SetTimeout
    \/ Fetch
    \/ Report
    \/ Save
    \/ Complete
    \/ Except
    \/ ExitOk
    \/ ExitRaised

Spec == Init /\ [][Next]_vars

\* ---------------------------------------------------------------- claims
HasLine(kind) == \E i \in 1..Len(out) : out[i].kind = kind
CallIdx(fn) == {i \in 1..Len(calls) : calls[i].fn = fn}
Raised == exc # None
RaisedAt(stages) == exc # None /\ Get(exc).at \in stages
SuccessfulExit == pc = "exited" /\ exit_status = Some(0)

\* The error text of e followed by the whole remediation guide are the
\* last lines printed.
ErrorAndGuidePrinted(e) ==
    /\ Len(out) >= 7
    /\ LET t == SubSeq(out, Len(out) - 6, Len(out)) IN
       /\ t[1].kind = "error" /\ t[1].name = e.type
       /\ [i \in 1..6 |-> t[i + 1].kind] =
            <<"guide_header", "guide_1_account", "guide_2_token",
              "guide_3_env", "guide_3_export", "guide_4_cli">>

\* C1: when login, the fetch or the save raises, the run prints the error
\* text and the remediation guide and then lets the same exception end the
\* process with a non-zero status; the completion banner is never printed,
\* and after a login or fetch failure save_to_disk is never called.
C1_FailurePrintedAndReraised ==
    RaisedAt({"login", "fetch", "save"}) =>
        /\ pc \in {"except", "propagate", "exited"}
        /\ pc \in {"propagate", "exited"} => ErrorAndGuidePrinted(Get(exc))
        /\ pc = "exited" =>
             /\ exit_status # None /\ Get(exit_status) # 0
             /\ stderr = <<"traceback">>
        /\ ~HasLine("complete")
        /\ Get(exc).at \in {"login", "fetch"} => CallIdx("save_to_disk") = {}

C1_Witness ==
    /\ pc = "exited"
    /\ RaisedAt({"fetch"})
    /\ ErrorAndGuidePrinted(Get(exc))
    /\ exit_status = Some(1)

\* C2 as claimed: every failure of a run of download_AudioMNIST, a failure
\* to create output_dir or cache_dir included, has its error text and the
\* remediation guide printed before the exception leaves the function.
C2_EveryFailureThroughBoundary ==
    (Raised /\ pc \in {"propagate", "exited"}) => ErrorAndGuidePrinted(Get(exc))

\* C2 as amended: a failure of login, the fetch, the report, the save or
\* the banner goes through the catch-all boundary (error text and guide
\* printed before it propagates); a failure to create output_dir or
\* cache_dir is outside the boundary: it propagates with neither the error
\* text nor any guide line printed, and the process still ends non-zero.
C2_DirectoryFailureOutsideBoundary ==
    /\ RaisedAt({"login", "set_timeout", "fetch", "report", "save", "complete"}) =>
         /\ pc \in {"except", "propagate", "exited"}
         /\ pc \in {"propagate", "exited"} => ErrorAndGuidePrinted(Get(exc))
    /\ RaisedAt({"mkdir_output", "mkdir_cache"}) =>
         /\ pc \in {"propagate", "exited"}
         /\ \A i \in 1..Len(out) :
              out[i].kind \notin {"error", "guide_header", "guide_1_account",
                  "guide_2_token", "guide_3_env", "guide_3_export", "guide_4_cli"}
         /\ pc = "exited" => exit_status = Some(1)

C2_Witness ==
    /\ pc = "exited"
    /\ RaisedAt({"mkdir_cache"})
    /\ HasLine("split")
    /\ ~HasLine("error")

\* HUGGINGFACE_TOKEN is set to a non-empty string.
TokenSet == env # None /\ env[1] # ""

\* download_AudioMNIST was called and got past directory creation: the
\* authentication step has run.
PastLogin ==
    \/ pc \in {"set_timeout", "fetch", "report", "save", "complete", "return"}
    \/ SuccessfulExit
    \/ RaisedAt({"login", "set_timeout", "fetch", "report", "save", "complete"})

\* C3 as claimed: in any run of download_AudioMNIST with HUGGINGFACE_TOKEN
\* set to a non-empty string exactly one authentication call is made, and
\* in any run with it unset or empty none is.
C3_LoginInEveryRun ==
    (pc = "exited" /\ cfg # NoCfg) =>
        Cardinality(CallIdx("login")) = IF TokenSet THEN 1 ELSE 0

\* C3 as amended: with HUGGINGFACE_TOKEN unset or empty no authentication
\* call is ever made; with it set to a non-empty string, every run that
\* gets past directory creation makes exactly one authentication call, with
\* that value as the token and before the fetch call, and a run stopped by
\* a directory-creation failure makes none; a failing authentication call
\* means the fetch call is never made.
C3_LoginOnceBeforeFetch ==
    /\ \A i \in CallIdx("login") : TokenSet /\ calls[i].token = env[1]
    /\ Cardinality(CallIdx("login")) <= 1
    /\ (TokenSet /\ PastLogin) => Cardinality(CallIdx("login")) = 1
    /\ \A i \in CallIdx("login") : \A j \in CallIdx("load_dataset") : i < j
    /\ RaisedAt({"mkdir_output", "mkdir_cache"}) => CallIdx("login") = {}
    /\ RaisedAt({"login"}) => CallIdx("load_dataset") = {}

C3_Witness ==
    /\ env = Some("hf_b")
    /\ Len(calls) >= 2
    /\ calls[1].fn = "login" /\ calls[1].token = "hf_b"
    /\ calls[2].fn = "load_dataset"

\* C4: through main, a --split of train, test or all reaches
\* download_AudioMNIST unchanged, an omitted --split reaches it as "all";
\* any other value ends the process with a usage error and a non-zero
\* status, with no directory created and no login, fetch or save call made.
C4_SplitChoices ==
    LET valid == argv.split = None \/ Get(argv.split) \in {"train", "test", "all"} IN
    /\ (valid /\ pc # "main") =>
         /\ cfg.split = IF argv.split = None THEN "all" ELSE Get(argv.split)
         /\ "usage" \notin {stderr[i] : i \in 1..Len(stderr)}
    /\ (~valid /\ pc # "main") =>
         /\ pc = "exited"
         /\ stderr = <<"usage">>
         /\ exit_status # None /\ Get(exit_status) # 0
    /\ ~valid => fs = fs0 /\ calls = <<>> /\ out = <<>>

C4_Witness ==
    /\ pc = "exited"
    /\ argv.split = Some("validation")
    /\ stderr = <<"usage">>
    /\ fs0[DefaultOutputDir] = "absent" /\ argv.output_dir = None

\* C5: whenever the fetch call is about to be made or has been made,
\* output_dir is a directory and so is cache_dir when one was given; and
\* creating a directory that already exists succeeds and changes nothing.
C5_DirectoriesExistBeforeFetch ==
    /\ (pc = "fetch" \/ CallIdx("load_dataset") # {}) =>
         /\ IsDir(fs[cfg.output_dir])
         /\ cfg.cache_dir # None => IsDir(fs[Get(cfg.cache_dir)])
    /\ (cfg # NoCfg /\ IsDir(fs0[cfg.output_dir])) =>
         /\ ~RaisedAt({"mkdir_output"})
         /\ pc \in {"mkdir_output", "echo", "mkdir_cache"} => fs = fs0
    /\ (cfg # NoCfg /\ IsDir(fs0[cfg.output_dir])
          /\ cfg.cache_dir # None /\ IsDir(fs0[Get(cfg.cache_dir)])) =>
         /\ ~RaisedAt({"mkdir_cache"})
         /\ pc \in {"login", "set_timeout", "fetch"} => fs = fs0

C5_Witness ==
    /\ pc = "fetch"
    /\ cfg.cache_dir = Some(CachePath)
    /\ fs0[CachePath] = "dir" /\ fs[CachePath] = "dir"
    /\ Len(cfg.output_dir) = 2
    /\ fs0[Parent(cfg.output_dir)] = "absent" /\ fs[cfg.output_dir] = "dir"

\* The sample-count lines printed so far.
CountLines == SelectSeq(out, LAMBDA l : l.kind \in {"split_count", "total"})

\* C6: once the report is printed, a fetched mapping of splits has one
\* line per split, in the mapping's order, with the split's name and its
\* sample count, and no total line; a fetched single collection has exactly
\* one total line, with the collection's size, and no per-split line.
C6_ReportCounts ==
    HasLine("downloaded") =>
        IF dataset.isdict
        THEN /\ Len(CountLines) = Len(dataset.items)
             /\ \A i \in 1..Len(CountLines) :
                  /\ CountLines[i].kind = "split_count"
                  /\ CountLines[i].name = dataset.items[i].name
                  /\ CountLines[i].n = dataset.items[i].n
        ELSE /\ Len(CountLines) = 1
             /\ CountLines[1].kind = "total"
             /\ CountLines[1].n = dataset.items[1].n

C6_Witness ==
    /\ pc = "save"
    /\ dataset.isdict
    /\ dataset.items[1].n = 1 /\ dataset.items[2].n = 2
    /\ Len(CountLines) = 2
    /\ CountLines[1].n = 1 /\ CountLines[2].n = 2

\* C7: the dataset is saved at most once and only to output_dir/AudioMNIST,
\* after the sample-count report and before the completion banner; a run
\* in which nothing raises makes exactly one save call and ends with status
\* 0, output_dir and output_dir/AudioMNIST both existing.
C7_SavedOnceThenBanner ==
    /\ Cardinality(CallIdx("save_to_disk")) <= 1
    /\ \A i \in CallIdx("save_to_disk") :
         /\ calls[i].path = cfg.output_dir \o <<"AudioMNIST">>
         /\ HasLine("downloaded") /\ CountLines # <<>>
    /\ pc = "save" => ~HasLine("complete")
    /\ HasLine("complete") =>
         /\ Cardinality(CallIdx("save_to_disk")) = 1
         /\ fs[cfg.output_dir \o <<"AudioMNIST">>] = "dataset"
    /\ (pc = "exited" /\ cfg # NoCfg /\ ~Raised) =>
         /\ exit_status = Some(0)
         /\ HasLine("complete")
         /\ Cardinality(CallIdx("save_to_disk")) = 1
         /\ IsDir(fs[cfg.output_dir])
         /\ IsDir(fs[cfg.output_dir \o <<"AudioMNIST">>])
    /\ (exit_status = Some(0)) => ~Raised

C7_Witness ==
    /\ SuccessfulExit
    /\ Len(cfg.output_dir) = 2
    /\ fs0[cfg.output_dir] = "absent" /\ fs0[Parent(cfg.output_dir)] = "absent"
    /\ fs[cfg.output_dir \o <<"AudioMNIST">>] = "dataset"

C9_NoActionAfterFailure ==
    [][Raised =>
        /\ fs' = fs
        /\ calls' = calls
        /\ exc' = exc
        /\ dataset' = dataset
        /\ pc' \in {"propagate", "exited"}]_vars

C9_Witness ==
    /\ pc = "exited"
    /\ RaisedAt({"save"})
    /\ fs0[cfg.output_dir] = "absent"
    /\ IsDir(fs[cfg.output_dir])
    /\ fs[cfg.output_dir \o <<"AudioMNIST">>] = "partial"

\* C10 as claimed: after the configuration echo block is printed, one of
\* its lines carries the configured num_proc value.
C10_NumProcEchoed ==
    pc = "mkdir_cache" =>
        \E i \in 1..Len(out) : out[i].kind # "rule" /\ out[i].n = cfg.num_proc

\* C10 as amended: --num-proc is accepted (default 4) and reaches
\* download_AudioMNIST unchanged, but it is not echoed: the echo block is
\* the banner, the absolute output directory and the split, followed by the
\* cache directory when one was given and created, and no line printed
\* before the fetch carries the num_proc value or any other number.
C10_NumProcAcceptedNotEchoed ==
    /\ (pc # "main" /\ cfg # NoCfg) =>
         cfg.num_proc = IF argv.num_proc = None THEN 4 ELSE Get(argv.num_proc)
    /\ pc \in {"mkdir_cache", "login", "set_timeout", "fetch"} =>
         /\ Len(out) >= 5
         /\ [i \in 1..5 |-> out[i].kind] =
              <<"rule", "title", "rule", "output_dir", "split">>
         /\ out[4].path = <<"cwd">> \o cfg.output_dir
         /\ out[5].name = cfg.split
         /\ \A i \in 1..Len(out) :
              /\ out[i].kind # "rule" => out[i].n = -1
              /\ out[i].kind # "num_proc"

C10_Witness ==
    /\ pc = "fetch"
    /\ argv.num_proc = Some(2)
    /\ cfg.num_proc = 2
    /\ HasLine("cache_dir")

====
